---- MODULE Spec2Model ----
\* Model of backend/search_routes.py: a script that reads server.js into a
\* list of lines and prints, under three headers, the lines that match three
\* substring predicates.  Text is modelled as sequences of one-character
\* strings, so that substring tests, trimming, newline handling and number
\* formatting are computed, not assumed.
EXTENDS Integers, Sequences, FiniteSets

\* ------------------------------------------------------------------ bounds
\* Number of text chunks the content of server.js is assembled from.
MaxChunks == 2
\* Number of times the script is executed on the same file.
MaxRuns == 2

\* ------------------------------------------------- literals of the program
\* 'require' (line 9)
REQUIRE ==
    <<"r","e","q","u","i","r","e">>
\* 'routes/' (line 9)
ROUTES_SLASH ==
    <<"r","o","u","t","e","s","/">>
\* 'Routes' (lines 9 and 14)
ROUTES_CAP ==
    <<"R","o","u","t","e","s">>
\* 'app.use' (line 14)
APP_USE ==
    <<"a","p","p",".","u","s","e">>
\* '/api' (line 14)
API ==
    <<"/","a","p","i">>
\* 'ai-chat' (line 19)
AI_CHAT ==
    <<"a","i","-","c","h","a","t">>
\* 'document-analyzer' (line 19)
DOCUMENT_ANALYZER ==
    <<"d","o","c","u","m","e","n","t","-","a","n","a","l","y","z","e","r">>
\* 'geocoding' (line 19)
GEOCODING ==
    <<"g","e","o","c","o","d","i","n","g">>
\* The list literal of line 19.
ROUTE_LIST ==
    <<AI_CHAT, DOCUMENT_ANALYZER, GEOCODING>>
\* Argument of print, line 7.
HEADER1 ==
    <<"=","=","="," ","R","o","u","t","e"," ","i","m","p","o","r","t","s"," ","(","r","e","q","u","i","r","e"," ","s","t","a","t","e","m","e","n","t","s",")"," ","=","=","=">>
\* The second header without its leading newline.
HEADER2_NoBlank ==
    <<"=","=","="," ","R","o","u","t","e"," ","m","o","u","n","t","i","n","g"," ","(","a","p","p",".","u","s","e"," ","s","t","a","t","e","m","e","n","t","s",")"," ","=","=","=">>
\* Argument of print, line 12 (begins with a newline).
HEADER2 ==
    <<"\n","=","=","="," ","R","o","u","t","e"," ","m","o","u","n","t","i","n","g"," ","(","a","p","p",".","u","s","e"," ","s","t","a","t","e","m","e","n","t","s",")"," ","=","=","=">>
\* Argument of print, line 17 (begins with a newline).
HEADER3 ==
    <<"\n","=","=","="," ","S","p","e","c","i","f","i","c"," ","r","o","u","t","e"," ","f","i","l","e","s"," ","m","e","n","t","i","o","n","e","d"," ","=","=","=">>
\* Fixed parts of the f-string of lines 10, 15 and 20.
LINE_PREFIX ==
    <<"L","i","n","e"," ">>
COLON_SPACE ==
    <<":"," ">>

\* ------------------------------------------------- contents of server.js
\* The file is assembled from these chunks.  Some end in a newline, one in
\* CR LF, two have no line terminator (so that a chunk can continue on the
\* same line as the previous one, and the last line can lack a newline).
ChunkImport ==
    <<" ","r","e","q","u","i","r","e","(","'",".","/","r","o","u","t","e","s","/","a","i","-","c","h","a","t","'",")",";","\n">>
ChunkMount ==
    <<"a","p","p",".","u","s","e","(","'","/","a","p","i","'",","," ","a","R","o","u","t","e","s",")",";","\n">>
ChunkCrlf ==
    <<"g","e","o","R","o","u","t","e","s"," ","="," ","r","e","q","u","i","r","e","(","'","g","e","o","c","o","d","i","n","g","'",")","\r","\n">>
ChunkCors ==
    <<"\t","a","p","p",".","u","s","e","(","r","e","q","u","i","r","e","(","'","c","o","r","s","'",")","(",")",")",";","\n">>
ChunkComment ==
    <<"/","/"," ","d","o","c","u","m","e","n","t","-","a","n","a","l","y","z","e","r"," "," ","\n">>
ChunkNearMiss ==
    <<"A","I","-","C","h","a","t"," ","r","o","u","t","e","s","/","\n">>
ChunkHead ==
    <<"a","p","p",".">>
ChunkTail ==
    <<"u","s","e","(","'","/","a","p","i","'",")","\n">>
ChunkBlank ==
    <<"\n">>
ChunkNoEol ==
    <<"r","e","q","u","i","r","e"," ","R","o","u","t","e","s"," ","a","p","p",".","u","s","e">>
ChunkSet ==
    {ChunkImport, ChunkMount, ChunkCrlf, ChunkCors, ChunkComment,
     ChunkNearMiss, ChunkHead, ChunkTail, ChunkBlank, ChunkNoEol}

RECURSIVE Contents(_)
Contents(n) ==
    IF n = 0 THEN {<< >>}
    ELSE LET shorter == Contents(n - 1)
         IN  shorter \cup {s \o c : s \in shorter, c \in ChunkSet}

FileContents == Contents(MaxChunks)

\* ----------------------------------------------------------------- state
VARIABLES
    fileStatus,   \* server.js: "ok", "missing" (open fails) or "unreadable" (read fails)
    fileContent,  \* the text of server.js
    hashSeed,     \* per-process hash randomisation of the interpreter
    runs,         \* number of executions of the script started so far
    prevOut,      \* standard output of the previous execution
    prevExit,     \* exit status of the previous execution
    pc,           \* position of the running script
    f,            \* the file handle: "unbound", "open" or "closed"
    lines,        \* the list assigned on line 5
    pos,          \* position of the iterator of the current for loop
    out,          \* standard output, as the sequence of lines written
    exitCode      \* exit status; -1 while the script runs

vars == <<fileStatus, fileContent, hashSeed, runs, prevOut, prevExit,
          pc, f, lines, pos, out, exitCode>>

file == <<fileStatus, fileContent>>

\* ------------------------------------------------------- text operations
\* The pieces of s cut after each of the positions ends, in order: end[k]
\* is the first of these positions at or after k (Len(s) if there is none),
\* from[k] the pieces from the piece that starts at k on.
Pieces(s, ends) ==
    LET end[k \in 1..(Len(s) + 1)] ==
            IF k >= Len(s) THEN Len(s)
            ELSE IF k \in ends THEN k
            ELSE end[k + 1]
        from[k \in 1..(Len(s) + 1)] ==
            IF k > Len(s) THEN << >>
            ELSE <<SubSeq(s, k, end[k])>> \o from[end[k] + 1]
    IN  from[1]

\* Split after every newline; each line keeps its terminator.
SplitKeepEnds(s) ==
    Pieces(s, {k \in 1..Len(s) : s[k] = "\n"})

\* Universal newlines of text mode: a line ends with LF, CR LF or a lone CR.
\* The positions at which a line of s ends.
UniversalEnds(s) ==
    {k \in 1..Len(s) :
        \/ s[k] = "\n"
        \/ s[k] = "\r" /\ ~(k < Len(s) /\ s[k + 1] = "\n")}

\* The terminator of a line as the program sees it: CR LF and CR become LF.
Translate(l) ==
    LET n == Len(l)
    IN  IF n >= 2 /\ l[n - 1] = "\r" /\ l[n] = "\n"
        THEN SubSeq(l, 1, n - 2) \o <<"\n">>
        ELSE IF n >= 1 /\ l[n] = "\r"
        THEN SubSeq(l, 1, n - 1) \o <<"\n">>
        ELSE l

\* f.readlines() on a file opened in text mode.
ReadLines(content) ==
    LET raw == Pieces(content, UniversalEnds(content))
    IN  [n \in 1..Len(raw) |-> Translate(raw[n])]

\* The characters str.strip() removes (those of the model's alphabet).
Whitespace ==
    {" ", "\t", "\n", "\r", "\f"}

\* line.strip(): first[k] is the position of the first character at or
\* after k that is not white space (Len(s) + 1 if there is none), last[k]
\* the position of the last one at or before k (0 if there is none).
Strip(s) ==
    LET first[k \in 1..(Len(s) + 1)] ==
            IF k <= Len(s) /\ s[k] \in Whitespace THEN first[k + 1] ELSE k
        last[k \in 0..Len(s)] ==
            IF k >= 1 /\ s[k] \in Whitespace THEN last[k - 1] ELSE k
    IN  SubSeq(s, first[1], last[Len(s)])

\* sub in s
In(sub, s) ==
    \E k \in 1..(Len(s) - Len(sub) + 1) : SubSeq(s, k, k + Len(sub) - 1) = sub

Digit(d) ==
    <<"0", "1", "2", "3", "4", "5", "6", "7", "8", "9">>[d + 1]

\* Decimal formatting of a positive integer, as {i} in an f-string.
RECURSIVE Str(_)
Str(n) ==
    IF n < 10 THEN <<Digit(n)>>
    ELSE Str(n \div 10) \o <<Digit(n % 10)>>

\* f"Line {i}: {line.strip()}"
FormatEntry(i, line) ==
    LINE_PREFIX \o Str(i) \o COLON_SPACE \o Strip(line)

\* The lines ls without their terminators.
DropEnds(ls) ==
    [p \in 1..Len(ls) |-> SubSeq(ls[p], 1, Len(ls[p]) - 1)]

\* A print that writes nothing when all of its lines were written before.
StdoutPrint_Once(o, s) ==
    LET new == DropEnds(SplitKeepEnds(s \o <<"\n">>))
    IN  IF \A q \in 1..Len(new) : \E p \in 1..Len(o) : o[p] = new[q]
        THEN o
        ELSE o \o new

\* print(s): s and a newline are written to standard output; o is the
\* sequence of complete lines written so far.
StdoutPrint(o, s) ==
    o \o DropEnds(SplitKeepEnds(s \o <<"\n">>))

\* The counter is not advanced: every pair carries start.
Enumerate_NoCount(ls, start) ==
    [k \in 1..Len(ls) |-> <<start, ls[k]>>]

\* enumerate(set(ls), start): duplicates are dropped and the order of
\* iteration depends on the hash seed of the process.
RECURSIVE Dedup(_)
Dedup(ls) ==
    IF ls = << >> THEN << >>
    ELSE LET rest == Dedup(SubSeq(ls, 1, Len(ls) - 1))
             last == ls[Len(ls)]
         IN  IF \E p \in 1..Len(rest) : rest[p] = last THEN rest ELSE rest \o <<last>>

Enumerate_Set(ls, start) ==
    LET d == Dedup(ls)
        n == Len(d)
    IN  [k \in 1..n |-> <<start + k - 1, IF hashSeed = 0 THEN d[k] ELSE d[n + 1 - k]>>]

\* enumerate(ls, start), as the sequence of pairs the loop receives.
Enumerate(ls, start) ==
    [k \in 1..Len(ls) |-> <<start + k - 1, ls[k]>>]

\* The conditions without their parentheses: "and" binds tighter than "or".
Match1_NoParens(line) ==
    (In(REQUIRE, line) /\ In(ROUTES_SLASH, line)) \/ In(ROUTES_CAP, line)

Match2_NoParens(line) ==
    (In(APP_USE, line) /\ In(API, line)) \/ In(ROUTES_CAP, line)

\* all(...) in place of any(...).
Match3_All(line) ==
    \A r \in 1..Len(ROUTE_LIST) : In(ROUTE_LIST[r], line)

\* The conditions of lines 9, 14 and 19.
Match1(line) ==
    In(REQUIRE, line) /\ (In(ROUTES_SLASH, line) \/ In(ROUTES_CAP, line))

Match2(line) ==
    In(APP_USE, line) /\ (In(API, line) \/ In(ROUTES_CAP, line))

Match3(line) ==
    \E r \in 1..Len(ROUTE_LIST) : In(ROUTE_LIST[r], line)

\* ------------------------------------------------------------------ steps
Init ==
    /\ fileStatus \in {"ok", "missing", "unreadable"}
    /\ fileContent \in FileContents
    /\ fileStatus # "ok" => fileContent = << >>
    /\ hashSeed \in {0, 1}
    /\ runs = 1
    /\ prevOut = << >>
    /\ prevExit = -1
    /\ pc = "open"
    /\ f = "unbound"
    /\ lines = << >>
    /\ pos = 0
    /\ out = << >>
    /\ exitCode = -1

\* Line 4: open('server.js', 'r') succeeds.
Open ==
    /\ pc = "open"
    /\ fileStatus # "missing"
    /\ f' = "open"
    /\ pc' = "readlines"
    /\ UNCHANGED <<file, hashSeed, runs, prevOut, prevExit, lines, pos, out, exitCode>>

\* The failure of open is swallowed and the script goes on with no lines.
OpenFail_Swallowed ==
    /\ pc = "open"
    /\ fileStatus = "missing"
    /\ lines' = << >>
    /\ pc' = "header1"
    /\ UNCHANGED <<file, hashSeed, runs, prevOut, prevExit, f, pos, out, exitCode>>

\* Line 4: open raises; the exception is not caught, the interpreter writes
\* a traceback to standard error and exits with status 1.
OpenFail ==
    /\ pc = "open"
    /\ fileStatus = "missing"
    /\ pc' = "failed"
    /\ exitCode' = 1
    /\ UNCHANGED <<file, hashSeed, runs, prevOut, prevExit, f, lines, pos, out>>

\* The lines are read but the handle is left open.
Read_NoClose ==
    /\ pc = "readlines"
    /\ fileStatus = "ok"
    /\ lines' = ReadLines(fileContent)
    /\ pc' = "header1"
    /\ UNCHANGED <<file, hashSeed, runs, prevOut, prevExit, f, pos, out, exitCode>>

\* Line 5 and the end of the with block: the lines are read, the handle is closed.
Read ==
    /\ pc = "readlines"
    /\ fileStatus = "ok"
    /\ lines' = ReadLines(fileContent)
    /\ f' = "closed"
    /\ pc' = "header1"
    /\ UNCHANGED <<file, hashSeed, runs, prevOut, prevExit, pos, out, exitCode>>

\* Line 5 raises (I/O or decoding error): the with block closes the handle
\* and the exception ends the script.
ReadFail ==
    /\ pc = "readlines"
    /\ fileStatus = "unreadable"
    /\ f' = "closed"
    /\ pc' = "failed"
    /\ exitCode' = 1
    /\ UNCHANGED <<file, hashSeed, runs, prevOut, prevExit, lines, pos, out>>

\* An empty list of lines is treated as an error before anything is printed.
Header1Step_RejectEmpty ==
    /\ pc = "header1"
    /\ IF lines = << >>
       THEN /\ pc' = "failed"
            /\ exitCode' = 1
            /\ UNCHANGED <<out, pos>>
       ELSE /\ out' = StdoutPrint(out, HEADER1)
            /\ pos' = 1
            /\ pc' = "pass1"
            /\ UNCHANGED exitCode
    /\ UNCHANGED <<file, hashSeed, runs, prevOut, prevExit, f, lines>>

\* Line 7, and the start of the loop of line 8.
Header1Step ==
    /\ pc = "header1"
    /\ out' = StdoutPrint(out, HEADER1)
    /\ pos' = 1
    /\ pc' = "pass1"
    /\ UNCHANGED <<file, hashSeed, runs, prevOut, prevExit, f, lines, exitCode>>

\* The body of the three loops (lines 9-10, 14-15, 19-20): the entry is
\* printed if the condition of the if statement holds.
LoopBody(o, i, line, matched) ==
    IF matched THEN StdoutPrint(o, FormatEntry(i, line)) ELSE o

\* Lines 8-10: one iteration.
Pass1Step ==
    /\ pc = "pass1"
    /\ pos <= Len(Enumerate(lines, 1))
    /\ LET i    == Enumerate(lines, 1)[pos][1]
           line == Enumerate(lines, 1)[pos][2]
       IN  out' = LoopBody(out, i, line, Match1(line))
    /\ pos' = pos + 1
    /\ UNCHANGED <<file, hashSeed, runs, prevOut, prevExit, pc, f, lines, exitCode>>

\* Line 12, reached when the loop of line 8 is exhausted; starts the loop of line 13.
Header2Step ==
    /\ pc = "pass1"
    /\ pos > Len(Enumerate(lines, 1))
    /\ out' = StdoutPrint(out, HEADER2)
    /\ pos' = 1
    /\ pc' = "pass2"
    /\ UNCHANGED <<file, hashSeed, runs, prevOut, prevExit, f, lines, exitCode>>

\* Lines 13-15: one iteration.
Pass2Step ==
    /\ pc = "pass2"
    /\ pos <= Len(Enumerate(lines, 1))
    /\ LET i    == Enumerate(lines, 1)[pos][1]
           line == Enumerate(lines, 1)[pos][2]
       IN  out' = LoopBody(out, i, line, Match2(line))
    /\ pos' = pos + 1
    /\ UNCHANGED <<file, hashSeed, runs, prevOut, prevExit, pc, f, lines, exitCode>>

\* Line 17, reached when the loop of line 13 is exhausted; starts the loop of line 18.
Header3Step ==
    /\ pc = "pass2"
    /\ pos > Len(Enumerate(lines, 1))
    /\ out' = StdoutPrint(out, HEADER3)
    /\ pos' = 1
    /\ pc' = "pass3"
    /\ UNCHANGED <<file, hashSeed, runs, prevOut, prevExit, f, lines, exitCode>>

\* Lines 18-20: one iteration.
Pass3Step ==
    /\ pc = "pass3"
    /\ pos <= Len(Enumerate(lines, 1))
    /\ LET i    == Enumerate(lines, 1)[pos][1]
           line == Enumerate(lines, 1)[pos][2]
       IN  out' = LoopBody(out, i, line, Match3(line))
    /\ pos' = pos + 1
    /\ UNCHANGED <<file, hashSeed, runs, prevOut, prevExit, pc, f, lines, exitCode>>

\* End of the script: the loop of line 18 is exhausted, exit status 0.
Finish ==
    /\ pc = "pass3"
    /\ pos > Len(Enumerate(lines, 1))
    /\ pc' = "done"
    /\ exitCode' = 0
    /\ UNCHANGED <<file, hashSeed, runs, prevOut, prevExit, f, lines, pos, out>>

\* The script is executed again on the same file, in a new process.
Rerun ==
    /\ pc \in {"done", "failed"}
    /\ runs < MaxRuns
    /\ runs' = runs + 1
    /\ prevOut' = out
    /\ prevExit' = exitCode
    /\ hashSeed' \in {0, 1}
    /\ pc' = "open"
    /\ f' = "unbound"
    /\ lines' = << >>
    /\ pos' = 0
    /\ out' = << >>
    /\ exitCode' = -1
    /\ UNCHANGED file

Next ==
    \/ Open
    \/ OpenFail
    \/ Read
    \/ ReadFail
    \/ Header1Step
    \/ Pass1Step
    \/ Header2Step
    \/ Pass2Step
    \/ Header3Step
    \/ Pass3Step
    \/ Finish
    \/ Rerun

Spec == Init /\ [][Next]_vars

\* An exception that nothing catches ends the script: the failing open is
\* not postponed for ever.
FairSpec == Spec /\ WF_vars(OpenFail)

TypeOK ==
    /\ pc \in {"open", "readlines", "header1", "pass1", "pass2", "pass3", "done", "failed"}
    /\ f \in {"unbound", "open", "closed"}
    /\ runs \in 1..MaxRuns
    /\ exitCode \in {-1, 0, 1}

\* ------------------------------------------------ vocabulary of the claims
\* The three header lines as they appear on standard output.
Title1 ==
    <<"=","=","="," ","R","o","u","t","e"," ","i","m","p","o","r","t","s"," ","(","r","e","q","u","i","r","e"," ","s","t","a","t","e","m","e","n","t","s",")"," ","=","=","=">>
Title2 ==
    <<"=","=","="," ","R","o","u","t","e"," ","m","o","u","n","t","i","n","g"," ","(","a","p","p",".","u","s","e"," ","s","t","a","t","e","m","e","n","t","s",")"," ","=","=","=">>
Title3 ==
    <<"=","=","="," ","S","p","e","c","i","f","i","c"," ","r","o","u","t","e"," ","f","i","l","e","s"," ","m","e","n","t","i","o","n","e","d"," ","=","=","=">>
Titles ==
    <<Title1, Title2, Title3>>

BlankLine ==
    << >>

\* The output of a run in which no line matched.
HeadersOnly ==
    <<Title1, BlankLine, Title2, BlankLine, Title3>>

StartsWith(s, p) ==
    /\ Len(p) <= Len(s)
    /\ \A j \in 1..Len(p) : s[j] = p[j]

\* p occurs in s as a contiguous substring: s is x, p, y for some x and y.
Occurs(p, s) ==
    \E a \in 0..(Len(s) - Len(p)) :
        SubSeq(s, 1, a) \o p \o SubSeq(s, a + Len(p) + 1, Len(s)) = s

Blanks ==
    {" ", "\t", "\n", "\r", "\f"}

\* t is s without its leading and trailing white space.
IsTrimOf(t, s) ==
    \E a \in 1..(Len(s) + 1) : \E b \in (a - 1)..Len(s) :
        /\ \A j \in 1..(a - 1) : s[j] \in Blanks
        /\ \A j \in (b + 1)..Len(s) : s[j] \in Blanks
        /\ t = SubSeq(s, a, b)
        /\ t # << >> => (t[1] \notin Blanks /\ t[Len(t)] \notin Blanks)

DecimalDigits ==
    {"0", "1", "2", "3", "4", "5", "6", "7", "8", "9"}

DigitValue(ch) ==
    CASE ch = "0" -> 0 [] ch = "1" -> 1 [] ch = "2" -> 2 [] ch = "3" -> 3
      [] ch = "4" -> 4 [] ch = "5" -> 5 [] ch = "6" -> 6 [] ch = "7" -> 7
      [] ch = "8" -> 8 [] ch = "9" -> 9

\* Value of a non-empty string of decimal digits.
RECURSIVE DecimalValue(_)
DecimalValue(ds) ==
    IF Len(ds) = 1 THEN DigitValue(ds[1])
    ELSE 10 * DecimalValue(SubSeq(ds, 1, Len(ds) - 1)) + DigitValue(ds[Len(ds)])

\* Number of digits that follow "Line " in an output line.
RECURSIVE DigitRun(_, _)
DigitRun(e, k) ==
    IF k <= Len(e) /\ e[k] \in DecimalDigits THEN 1 + DigitRun(e, k + 1) ELSE 0

IsEntryLine(e) ==
    /\ StartsWith(e, <<"L", "i", "n", "e", " ">>)
    /\ DigitRun(e, 6) > 0
    /\ SubSeq(e, 6 + DigitRun(e, 6), 7 + DigitRun(e, 6)) = <<":", " ">>

\* The line number an entry shows.
EntryNumber(e) ==
    DecimalValue(SubSeq(e, 6, 5 + DigitRun(e, 6)))

\* The text an entry shows after "Line <n>: ".
EntryText(e) ==
    SubSeq(e, 8 + DigitRun(e, 6), Len(e))

\* e is the output line 'Line n: <s trimmed>'.
IsEntryFor(e, n, s) ==
    /\ IsEntryLine(e)
    /\ e[6] # "0"
    /\ EntryNumber(e) = n
    /\ IsTrimOf(EntryText(e), s)

TitlePos(k) ==
    {p \in 1..Len(out) : out[p] = Titles[k]}

\* Positions of the output lines of section k: after the k-th header and
\* before the blank line that precedes the next header.
SectionPos(k) ==
    {p \in 1..Len(out) :
        /\ \E h \in TitlePos(k) : h < p
        /\ k < 3 => \A h \in TitlePos(k + 1) : p < h - 1}

\* Line n of the input has an entry in section k.
Reported(k, n) ==
    \E p \in SectionPos(k) : IsEntryFor(out[p], n, lines[n])

\* The conditions of the three passes, as the specification words them.
Cond(k, s) ==
    CASE k = 1 -> Occurs(REQUIRE, s) /\ (Occurs(ROUTES_SLASH, s) \/ Occurs(ROUTES_CAP, s))
      [] k = 2 -> Occurs(APP_USE, s) /\ (Occurs(API, s) \/ Occurs(ROUTES_CAP, s))
      [] k = 3 -> Occurs(AI_CHAT, s) \/ Occurs(DOCUMENT_ANALYZER, s) \/ Occurs(GEOCODING, s)

\* Section k holds an entry for exactly the input lines that satisfy the
\* condition of pass k, and nothing else.
SectionExact(k) ==
    /\ \A n \in 1..Len(lines) : Reported(k, n) <=> Cond(k, lines[n])
    /\ \A p \in SectionPos(k) :
          \E n \in 1..Len(lines) : IsEntryFor(out[p], n, lines[n]) /\ Cond(k, lines[n])

IsPrefix(s, t) ==
    Len(s) <= Len(t) /\ SubSeq(t, 1, Len(s)) = s

PassLabel(k) ==
    <<"pass1", "pass2", "pass3">>[k]

\* --------------------------------------------------------------------- C1
\* Exactly three header lines, at the right places.
HeadersExact ==
    /\ \A k \in 1..3 : Cardinality(TitlePos(k)) = 1
    /\ {p \in 1..Len(out) : StartsWith(out[p], <<"=", "=", "=">>)}
          = TitlePos(1) \cup TitlePos(2) \cup TitlePos(3)
    /\ out[1] = Title1
    /\ \A k \in 2..3 : \A h \in TitlePos(k) :
          /\ out[h - 1] = BlankLine
          /\ \A g \in TitlePos(k - 1) : g < h - 1
    /\ {p \in 1..Len(out) : out[p] = BlankLine} = {h - 1 : h \in TitlePos(2) \cup TitlePos(3)}

\* A step of pass k that prints appends entry lines only, after the header
\* of pass k and while the header of pass k + 1 is not yet printed.
EntryPlacement ==
    \A k \in 1..3 :
        (pc = PassLabel(k) /\ pc' = pc /\ out' # out) =>
            /\ IsPrefix(out, out')
            /\ \A p \in (Len(out) + 1)..Len(out') : IsEntryLine(out'[p])
            /\ TitlePos(k) # {}
            /\ k < 3 => Titles[k + 1] \notin {out'[p] : p \in 1..Len(out')}

\* Within one execution, standard output only grows.
AppendOnly ==
    runs' = runs => IsPrefix(out, out')

\* C1: every run that reads its input prints exactly three header lines, the
\* fixed titles in their fixed order, the second and third each preceded by
\* one blank line, and every entry a pass prints lies after the header of
\* that pass and before the header of the next.
C1_HeadersAndPlacement ==
    /\ [](pc = "done" => HeadersExact)
    /\ [][EntryPlacement /\ AppendOnly]_vars

C1_Witness ==
    /\ pc = "done"
    /\ \A k \in 1..3 : SectionPos(k) # {}

\* --------------------------------------------------------------------- C2
\* C2: the first section holds the entry 'Line n: <L trimmed>' exactly for
\* the lines L that contain 'require' and one of 'routes/', 'Routes'.
C2_Pass1Exact ==
    pc = "done" => SectionExact(1)

C2_Witness ==
    /\ pc = "done"
    /\ \E n \in 1..Len(lines) : Cond(1, lines[n]) /\ Reported(1, n)
    /\ \E n \in 1..Len(lines) : Occurs(REQUIRE, lines[n]) /\ ~Cond(1, lines[n])

\* --------------------------------------------------------------------- C3
\* C3: the second section holds the entry 'Line n: <L trimmed>' exactly for
\* the lines L that contain 'app.use' and one of '/api', 'Routes'.
C3_Pass2Exact ==
    pc = "done" => SectionExact(2)

C3_Witness ==
    /\ pc = "done"
    /\ \E n \in 1..Len(lines) : Cond(2, lines[n]) /\ Reported(2, n)
    /\ \E n \in 1..Len(lines) : Occurs(APP_USE, lines[n]) /\ ~Cond(2, lines[n])

\* --------------------------------------------------------------------- C4
\* C4: the third section holds the entry 'Line n: <L trimmed>' exactly for
\* the lines L that contain one of 'ai-chat', 'document-analyzer',
\* 'geocoding', compared case-sensitively.
C4_Pass3Exact ==
    pc = "done" => SectionExact(3)

C4_Witness ==
    /\ pc = "done"
    /\ \E n \in 1..Len(lines) : Cond(3, lines[n]) /\ Reported(3, n)
    /\ \E n \in 1..Len(lines) :
          Occurs(<<"A", "I", "-", "C", "h", "a", "t">>, lines[n]) /\ ~Cond(3, lines[n])

\* --------------------------------------------------------------------- C5
\* While server.js cannot be opened nothing is printed and the script never
\* runs past the open; whenever something has been printed, the read has
\* succeeded.
NoOutputUnlessRead ==
    /\ fileStatus = "missing" =>
          /\ out = << >>
          /\ pc \in {"open", "failed"}
          /\ exitCode # 0
    /\ out # << >> =>
          /\ fileStatus = "ok"
          /\ pc \in {"pass1", "pass2", "pass3", "done"}

\* C5: if server.js cannot be opened, the run prints nothing to standard
\* output and ends in the error state with a non-zero exit status; the first
\* header is printed only after the read has succeeded.
C5_MissingFile ==
    /\ []NoOutputUnlessRead
    /\ (fileStatus = "missing" /\ pc = "open")
          ~> (pc = "failed" /\ exitCode > 0 /\ out = << >>)

C5_Witness ==
    /\ fileStatus = "missing"
    /\ pc = "failed"
    /\ exitCode = 1
    /\ out = << >>

\* --------------------------------------------------------------------- C6
EntryPos(k) ==
    {p \in SectionPos(k) : IsEntryLine(out[p])}

\* C6: within each section the line numbers of the printed entries are
\* strictly increasing, so no input line is printed twice in a section.
C6_StrictlyIncreasing ==
    \A k \in 1..3 : \A p, q \in EntryPos(k) :
        p < q => EntryNumber(out[p]) < EntryNumber(out[q])

C6_Witness ==
    /\ pc = "done"
    /\ \E k \in 1..3 : Cardinality(EntryPos(k)) >= 2

\* --------------------------------------------------------------------- C7
\* C7: a line is printed once under every section whose condition it
\* satisfies, whatever the other sections printed: the number of entries of
\* line n in the whole output is the number of conditions the line
\* satisfies, and a line reported by one pass is not missing from another
\* pass it satisfies.
C7_NoCrossSectionSuppression ==
    pc = "done" =>
        \A n \in 1..Len(lines) :
            /\ Cardinality({p \in 1..Len(out) : IsEntryFor(out[p], n, lines[n])})
                  = Cardinality({k \in 1..3 : Cond(k, lines[n])})
            /\ \A j, k \in 1..3 :
                  (j # k /\ Reported(j, n) /\ Cond(k, lines[n])) => Reported(k, n)

C7_Witness ==
    /\ pc = "done"
    /\ \E n \in 1..Len(lines) :
          /\ Cond(1, lines[n]) /\ ~Cond(2, lines[n]) /\ Cond(3, lines[n])
          /\ Reported(1, n) /\ ~Reported(2, n) /\ Reported(3, n)

NoLineMatches ==
    \A n \in 1..Len(lines) : \A k \in 1..3 : ~Cond(k, lines[n])

\* C9: a run on a file with zero lines ends with exit status 0 having
\* printed the three headers and no entry; any run in which no line matches
\* ends with the three headers and empty sections.
C9_EmptyInput ==
    /\ (fileStatus = "ok" /\ fileContent = << >>) => pc # "failed"
    /\ (pc = "done" /\ NoLineMatches) => (out = HeadersOnly /\ exitCode = 0)
    /\ (pc = "done" /\ fileContent = << >>) => (lines = << >> /\ NoLineMatches)

C9_Witness ==
    /\ pc = "done"
    /\ fileStatus = "ok"
    /\ fileContent = << >>
    /\ lines = << >>
    /\ out = HeadersOnly
    /\ exitCode = 0

\* -------------------------------------------------------------------- C10
AfterRead ==
    {"header1", "pass1", "pass2", "pass3", "done"}

HandleReleasedFirst ==
    /\ (pc \in AfterRead \/ out # << >>) => f = "closed"
    /\ f = "open" => (pc = "readlines" /\ out = << >> /\ pos = 0)

LinesFrozen ==
    (pc \in AfterRead /\ runs' = runs) => lines' = lines

\* C10: the handle is opened, read and closed before the first header is
\* printed or any line is filtered, and from then on the list of lines is
\* not changed by the passes.
C10_ReadThenFilter ==
    /\ []HandleReleasedFirst
    /\ [][LinesFrozen]_vars

C10_Witness ==
    /\ pc = "pass3"
    /\ pos > Len(lines)
    /\ Len(lines) >= 2
    /\ f = "closed"
    /\ Len(out) > 5
====
